---- MODULE Spec2Model ----
(***************************************************************************)
(* GameRecSite: a Flask application (src/app.py) over three SQLAlchemy     *)
(* tables (src/models.py) and one outbound REST client (src/api_client.py).*)
(*                                                                         *)
(* State: the three tables, one cookie session per browser, the signup     *)
(* requests that are between their existence query and their commit, and   *)
(* the last response the server produced.  One action per route.           *)
(*                                                                         *)
(* Conventions.  A missing form field or query argument is the empty       *)
(* string (the code tests them with `not x`).  A primary key is the row's  *)
(* position in its table: no route deletes a row.  Fields of Game that no  *)
(* route reads back into a decision (title, image_url, description,        *)
(* created_at) and the timestamp columns are left out; insertion order     *)
(* stands for timestamp order.                                             *)
(***************************************************************************)
EXTENDS Integers, Sequences, FiniteSets, TLC

VARIABLES users, games, saved_lists, session, pending, resp, fetched10

vars == <<users, games, saved_lists, session, pending, resp, fetched10>>

(***************************************************************************)
(* Bounds of the model and constants of the program                        *)
(***************************************************************************)
MaxSavedLists == 2
MaxGuestLists == 1

CacheThreshold == 10
ResultLimit == 20
PageSize == 20
RatingScale == 20

Clients == {"c1", "c2"}
Usernames == {"alice", "bob"}
Passwords == {"pw1", "pw2"}
Salts == {"s1", "s2"}

(***************************************************************************)
(* Sequence helpers                                                        *)
(***************************************************************************)
Range(s) == {s[i] : i \in DOMAIN s}

Take(s, n) == SubSeq(s, 1, IF Len(s) < n THEN Len(s) ELSE n)

Reverse(s) == [i \in 1..Len(s) |-> s[Len(s) + 1 - i]]

SortDescMutAscending(s) == SortSeq(s, LAMBDA a, b : a.rating < b.rating)

\* sorted(s, key=lambda x: x['rating'], reverse=True): a stable sort, rows of
\* equal rating keep their order (SortSeq moves a row only past rows it precedes).
SortDesc(s) == SortSeq(s, LAMBDA a, b : a.rating > b.rating)

(***************************************************************************)
(* werkzeug.security password hashing: a salted digest.  The digest is a   *)
(* symbolic one-way term over the salt and the password.                   *)
(***************************************************************************)
Digest(salt, password) == <<"pbkdf2", salt, password>>

generate_password_hash(password, salt) ==
    [salt |-> salt, digest |-> Digest(salt, password)]

check_password_hashMutAnyPassword(password_hash, password) ==
    password_hash.salt \in Salts

check_password_hash(password_hash, password) ==
    Digest(password_hash.salt, password) = password_hash.digest

(***************************************************************************)
(* RAWGClient: the two lookup tables.  dict.get gives None for a key that  *)
(* is not in the table.                                                    *)
(***************************************************************************)
PLATFORM_MAP(platform) ==
    CASE platform = "Steam" -> 4
      [] platform = "Xbox Series X|S" -> 186
      [] platform = "PlayStation 5" -> 187
      [] platform = "Nintendo Switch" -> 7
      [] OTHER -> 0

GENRE_MAP(genre) ==
    CASE genre = "RPG" -> "role-playing-games-rpg"
      [] genre = "Shooter" -> "shooter"
      [] genre = "Platformer" -> "platformer"
      [] genre = "Metroidvania" -> "metroidvania"
      [] genre = "Action" -> "action"
      [] OTHER -> ""

(***************************************************************************)
(* The external API.  A network outcome is what requests.get and the       *)
(* response give: an exception, an HTTP error status, or a JSON body that  *)
(* has a results field or has none.  A game_data is [id, rating (0..5),    *)
(* metacritic (0 for none)].                                               *)
(***************************************************************************)
RawRating(id) == id % 6

RawMetacritic(id) == IF id % 3 = 0 THEN 0 ELSE 40 + ((id * 7) % 60)

GameData(id) == [id |-> id, rating |-> RawRating(id), metacritic |-> RawMetacritic(id)]

\* n rows with consecutive ids from first; with rep the last row repeats the first.
ApiPage(first, n, rep) ==
    [i \in 1..n |-> IF rep /\ i = n /\ n > 1 THEN GameData(first) ELSE GameData(first + i - 1)]

NetException == [kind |-> "exception", results |-> <<>>]
NetHttpError == [kind |-> "http_error", results |-> <<>>]
NetNoResults == [kind |-> "no_results_field", results |-> <<>>]
NetOk(results) == [kind |-> "ok", results |-> results]

NetFailures == {NetException, NetHttpError, NetNoResults}

\* The parsed JSON body, or None (is_none) when requests raised.
_make_request(net) ==
    IF net.kind \in {"exception", "http_error"}
    THEN [is_none |-> TRUE, has_results |-> FALSE, results |-> <<>>]
    ELSE [is_none |-> FALSE, has_results |-> net.kind = "ok", results |-> net.results]

ConvertRating(game_data) ==
    IF game_data.metacritic # 0 THEN game_data.metacritic
    ELSE game_data.rating * RatingScale

GameInfo(game_data, platform, genre) ==
    [rawg_id |-> game_data.id, platform |-> platform, genre |-> genre,
     rating |-> ConvertRating(game_data)]

get_gamesMutKeyError(platform, genre, page_size, net) ==
    LET data == _make_request(net) IN
    IF PLATFORM_MAP(platform) = 0 \/ GENRE_MAP(genre) = ""
    THEN [called |-> FALSE, page_size |-> 0, raised |-> FALSE, games |-> <<>>]
    ELSE IF data.is_none
    THEN [called |-> TRUE, page_size |-> page_size, raised |-> FALSE, games |-> <<>>]
    ELSE IF ~data.has_results
    THEN [called |-> TRUE, page_size |-> page_size, raised |-> TRUE, games |-> <<>>]
    ELSE [called |-> TRUE, page_size |-> page_size, raised |-> FALSE,
          games |-> [i \in 1..Len(data.results) |-> GameInfo(data.results[i], platform, genre)]]

\* called: whether the outbound request was made, and with which page_size.
get_games_by_platform_and_genre(platform, genre, page_size, net) ==
    LET data == _make_request(net) IN
    IF PLATFORM_MAP(platform) = 0 \/ GENRE_MAP(genre) = ""
    THEN [called |-> FALSE, page_size |-> 0, raised |-> FALSE, games |-> <<>>]
    ELSE IF data.is_none \/ ~data.has_results
    THEN [called |-> TRUE, page_size |-> page_size, raised |-> FALSE, games |-> <<>>]
    ELSE [called |-> TRUE, page_size |-> page_size, raised |-> FALSE,
          games |-> [i \in 1..Len(data.results) |-> GameInfo(data.results[i], platform, genre)]]

(***************************************************************************)
(* The Game table.  rawg_id carries a UNIQUE constraint (models.py:17);    *)
(* an INSERT that breaks it raises IntegrityError at the flush.            *)
(***************************************************************************)
GameExists(tbl, g) ==
    \E i \in DOMAIN tbl :
        /\ tbl[i].rawg_id = g.rawg_id
        /\ tbl[i].platform = g.platform
        /\ tbl[i].genre = g.genre

GameUniqueViolation(tbl, g) == \E i \in DOMAIN tbl : tbl[i].rawg_id = g.rawg_id

\* The loop of cache_games_to_database under the session's autoflush: each
\* query first flushes the row added by the iteration before it, so a broken
\* constraint raises out of the query (outside the try); the row added by the
\* last iteration is flushed by the commit, inside the try, and is rolled back.
\* pend is the sequence of rows added and not yet flushed (at most one).
RECURSIVE CacheLoop(_, _, _, _)
CacheLoop(orig, tbl, pend, rest) ==
    IF pend # <<>> /\ GameUniqueViolation(tbl, pend[1])
    THEN [games |-> orig, raised |-> rest # <<>>, committed |-> FALSE]
    ELSE LET flushed == tbl \o pend IN
         IF rest = <<>>
         THEN [games |-> flushed, raised |-> FALSE, committed |-> TRUE]
         ELSE CacheLoop(orig, flushed,
                        IF GameExists(flushed, Head(rest)) THEN <<>> ELSE <<Head(rest)>>,
                        Tail(rest))

cache_games_to_database(tbl, api_games) == CacheLoop(tbl, tbl, <<>>, api_games)

\* ORDER BY rating DESC LIMIT limit; rows of equal rating in primary-key order.
get_cached_games(tbl, platform, genre, limit) ==
    Take(SortDesc(SelectSeq(tbl, LAMBDA g : g.platform = platform /\ g.genre = genre)),
         limit)

NeedsFetchMutInclusive(cached) == Len(cached) <= CacheThreshold

NeedsFetch(cached) == Len(cached) < CacheThreshold

MergeMutSortAscending(cached, api_games) ==
    LET existing_ids == {cached[i].rawg_id : i \in DOMAIN cached}
        fresh == SelectSeq(api_games, LAMBDA g : g.rawg_id \notin existing_ids)
    IN  Take(SortDescMutAscending(cached \o fresh), ResultLimit)

\* app.py:137-142.  existing_ids is computed once, before the loop.
Merge(cached, api_games) ==
    LET existing_ids == {cached[i].rawg_id : i \in DOMAIN cached}
        fresh == SelectSeq(api_games, LAMBDA g : g.rawg_id \notin existing_ids)
    IN  Take(SortDesc(cached \o fresh), ResultLimit)

(***************************************************************************)
(* The User and SavedList tables, the cookie session                       *)
(***************************************************************************)
\* User.query.filter_by(username=username).first(): the row's id, 0 for None.
FindUser(tbl, username) ==
    IF \E i \in DOMAIN tbl : tbl[i].username = username
    THEN CHOOSE i \in DOMAIN tbl :
            /\ tbl[i].username = username
            /\ \A j \in DOMAIN tbl : tbl[j].username = username => i <= j
    ELSE 0

UserUniqueViolationMutNoConstraint(tbl, username) == FALSE

\* username is UNIQUE (models.py:8): the INSERT of a second row raises at commit.
UserUniqueViolation(tbl, username) == \E i \in DOMAIN tbl : tbl[i].username = username

OwnedByMutAnyOwner(row, user_id) == row.user_id \in Nat

OwnedBy(row, user_id) == row.user_id = user_id

\* SavedList.query.filter_by(user_id=...).order_by(SavedList.timestamp.desc()).all()
SavedListsOf(tbl, user_id) == Reverse(SelectSeq(tbl, LAMBDA r : OwnedBy(r, user_id)))

EmptySession == [user_id |-> 0, username |-> "", guest_lists |-> <<>>]

LoggedIn(c) == session[c].user_id # 0

\* The response of the request served last, with what the handler saw on the way.
BlankResp ==
    [route |-> "", client |-> "", method |-> "", view |-> "", outcome |-> "",
     username |-> "", password |-> "", platform |-> "", genre |-> "",
     cached |-> <<>>, api_called |-> FALSE, api_page_size |-> 0,
     api_failed |-> FALSE,
     api_games |-> <<>>, games |-> <<>>, saved_shown |-> <<>>]

(***************************************************************************)
(* Routes                                                                  *)
(***************************************************************************)
Index(c) ==
    /\ resp' = [BlankResp EXCEPT !.route = "index", !.client = c, !.method = "GET",
                                 !.view = "index.html"]
    /\ UNCHANGED <<users, games, saved_lists, session, pending, fetched10>>

Login(c, method, username, password) ==
    LET id == FindUser(users, username)
        missing == username = "" \/ password = ""
        ok == /\ method = "POST"
              /\ ~missing
              /\ id # 0
              /\ check_password_hash(users[id].password_hash, password)
        base == [BlankResp EXCEPT !.route = "login", !.client = c, !.method = method,
                                  !.username = username, !.password = password]
    IN  /\ session' = IF ok
                      THEN [session EXCEPT ![c].user_id = id,
                                           ![c].username = users[id].username]
                      ELSE session
        /\ resp' = IF method = "GET"
                   THEN [base EXCEPT !.view = "login.html", !.outcome = "form"]
                   ELSE IF missing
                   THEN [base EXCEPT !.view = "login.html", !.outcome = "missing"]
                   ELSE IF ok
                   THEN [base EXCEPT !.view = "->survey", !.outcome = "ok"]
                   ELSE [base EXCEPT !.view = "login.html", !.outcome = "invalid"]
        /\ UNCHANGED <<users, games, saved_lists, pending, fetched10>>

\* signup up to the existence query (app.py:61-81).  A request that passes is
\* in flight until SignupCommit: another request may be served in between.
SignupCheck(c, method, username, password, confirm_password, salt) ==
    LET base == [BlankResp EXCEPT !.route = "signup", !.client = c, !.method = method,
                                  !.username = username]
        outcome == IF method = "GET" THEN "form"
                   ELSE IF username = "" \/ password = "" THEN "missing"
                   ELSE IF password # confirm_password THEN "mismatch"
                   ELSE IF FindUser(users, username) # 0 THEN "exists"
                   ELSE "in_flight"
    IN  /\ pending[c] = <<>>
        /\ pending' = IF outcome = "in_flight"
                      THEN [pending EXCEPT ![c] =
                              <<[username |-> username,
                                 password_hash |-> generate_password_hash(password, salt)]>>]
                      ELSE pending
        /\ resp' = [base EXCEPT !.outcome = outcome,
                                !.view = IF outcome = "in_flight" THEN "" ELSE "signup.html"]
        /\ UNCHANGED <<users, games, saved_lists, session, fetched10>>

\* db.session.add(new_user); db.session.commit() and its except branch (app.py:83-92).
SignupCommit(c) ==
    /\ pending[c] # <<>>
    /\ LET new_user == pending[c][1]
           failed == UserUniqueViolation(users, new_user.username)
           base == [BlankResp EXCEPT !.route = "signup", !.client = c, !.method = "POST",
                                     !.username = new_user.username]
       IN  /\ users' = IF failed THEN users ELSE Append(users, new_user)
           /\ resp' = IF failed
                      THEN [base EXCEPT !.view = "signup.html", !.outcome = "commit_error"]
                      ELSE [base EXCEPT !.view = "->login", !.outcome = "created"]
    /\ pending' = [pending EXCEPT ![c] = <<>>]
    /\ UNCHANGED <<games, saved_lists, session, fetched10>>

Logout(c) ==
    /\ session' = [session EXCEPT ![c] = EmptySession]
    /\ resp' = [BlankResp EXCEPT !.route = "logout", !.client = c, !.method = "GET",
                                 !.view = "->index"]
    /\ UNCHANGED <<users, games, saved_lists, pending, fetched10>>

Survey(c, method, platform, genre) ==
    /\ resp' = [BlankResp EXCEPT
                  !.route = "survey", !.client = c, !.method = method,
                  !.platform = platform, !.genre = genre,
                  !.view = IF method = "POST" /\ platform # "" /\ genre # ""
                           THEN "->results" ELSE "survey.html",
                  !.outcome = IF method = "GET" THEN "form"
                              ELSE IF platform = "" \/ genre = "" THEN "missing"
                              ELSE "ok"]
    /\ UNCHANGED <<users, games, saved_lists, session, pending, fetched10>>

\* net: what the network gives if the handler makes the outbound request.
Results(c, platform, genre, net) ==
    LET invalid == platform = "" \/ genre = ""
        cached == get_cached_games(games, platform, genre, ResultLimit)
        fetch == ~invalid /\ NeedsFetch(cached)
        api == IF fetch
               THEN get_games_by_platform_and_genre(platform, genre, PageSize, net)
               ELSE [called |-> FALSE, page_size |-> 0, raised |-> FALSE, games |-> <<>>]
        stored == IF api.games # <<>>
                  THEN cache_games_to_database(games, api.games)
                  ELSE [games |-> games, raised |-> FALSE, committed |-> FALSE]
        crashed == api.raised \/ stored.raised
        shown == IF api.games # <<>> THEN Merge(cached, api.games) ELSE cached
        completes == ~invalid /\ ~crashed
        base == [BlankResp EXCEPT !.route = "results", !.client = c, !.method = "GET",
                                  !.platform = platform, !.genre = genre]
    IN  /\ completes /\ LoggedIn(c) => Len(saved_lists) < MaxSavedLists
        /\ completes /\ ~LoggedIn(c) => Len(session[c].guest_lists) < MaxGuestLists
        /\ games' = IF invalid THEN games ELSE stored.games
        /\ saved_lists' =
              IF completes /\ LoggedIn(c)
              THEN Append(saved_lists,
                          [id |-> Len(saved_lists) + 1, user_id |-> session[c].user_id,
                           platform_choice |-> platform, genre_choice |-> genre])
              ELSE saved_lists
        /\ session' =
              IF completes /\ ~LoggedIn(c)
              THEN [session EXCEPT ![c].guest_lists =
                      Append(@, [platform |-> platform, genre |-> genre])]
              ELSE session
        /\ fetched10' =
              IF Cardinality({api.games[i].rawg_id : i \in DOMAIN api.games}) >= CacheThreshold
              THEN fetched10 \cup {<<platform, genre>>}
              ELSE fetched10
        /\ resp' = IF invalid
                   THEN [base EXCEPT !.view = "->survey", !.outcome = "invalid"]
                   ELSE [base EXCEPT
                           !.view = IF crashed THEN "500" ELSE "results.html",
                           !.outcome = IF crashed THEN "error" ELSE "ok",
                           !.cached = cached,
                           !.api_called = api.called,
                           !.api_page_size = api.page_size,
                           !.api_failed = api.called /\ net \in NetFailures,
                           !.api_games = api.games,
                           !.games = IF crashed THEN <<>> ELSE shown]
        /\ UNCHANGED <<users, pending>>

MyLists(c) ==
    /\ resp' = IF ~LoggedIn(c)
               THEN [BlankResp EXCEPT !.route = "my_lists", !.client = c, !.method = "GET",
                                      !.view = "->login", !.outcome = "login_required"]
               ELSE [BlankResp EXCEPT !.route = "my_lists", !.client = c, !.method = "GET",
                                      !.view = "my_lists.html", !.outcome = "ok",
                                      !.saved_shown = SavedListsOf(saved_lists, session[c].user_id)]
    /\ UNCHANGED <<users, games, saved_lists, session, pending, fetched10>>

(***************************************************************************)
(* Specifications.  Each draws the requests from the inputs its claims are *)
(* about; the handlers are the same.                                       *)
(***************************************************************************)
Methods == {"GET", "POST"}

NoUsers ==
    /\ users = <<>>
    /\ games = <<>>
    /\ saved_lists = <<>>
    /\ session = [c \in Clients |-> EmptySession]
    /\ pending = [c \in Clients |-> <<>>]
    /\ fetched10 = {}

\* Signups from two browsers at once.
InitSignup ==
    /\ NoUsers
    /\ resp = BlankResp

NextSignup ==
    \E c \in Clients :
        \/ \E method \in Methods, username \in Usernames \cup {""},
              password \in Passwords \cup {""}, confirm_password \in Passwords,
              salt \in Salts :
                SignupCheck(c, method, username, password, confirm_password, salt)
        \/ SignupCommit(c)

SpecSignup == InitSignup /\ [][NextSignup]_vars

\* Every route, one browser; alice has signed up.
SessionPairs == {<<"Steam", "RPG">>, <<"PlayStation 5", "RPG">>, <<"", "RPG">>}

SessionNets == {NetException, NetOk(ApiPage(1, 2, FALSE))}

InitSession ==
    /\ users = <<[username |-> "alice",
                  password_hash |-> generate_password_hash("pw1", "s1")]>>
    /\ games = <<>>
    /\ saved_lists = <<>>
    /\ session = [c \in Clients |-> EmptySession]
    /\ pending = [c \in Clients |-> <<>>]
    /\ fetched10 = {}
    /\ resp = [BlankResp EXCEPT !.route = "signup", !.client = "c1", !.method = "POST",
                                !.username = "alice", !.view = "->login",
                                !.outcome = "created"]

NextSession ==
    \E c \in {"c1"} :
        \/ Index(c)
        \/ \E method \in Methods, username \in Usernames \cup {""},
              password \in Passwords \cup {""} :
                Login(c, method, username, password)
        \/ \E username \in Usernames, confirm_password \in Passwords :
                SignupCheck(c, "POST", username, "pw2", confirm_password, "s2")
        \/ SignupCommit(c)
        \/ Logout(c)
        \/ \E pg \in SessionPairs : Survey(c, "POST", pg[1], pg[2])
        \/ \E pg \in SessionPairs, net \in SessionNets : Results(c, pg[1], pg[2], net)
        \/ MyLists(c)

SpecSession == InitSession /\ [][NextSession]_vars

\* The recommendation lookup against the cache and the external API.
CachePairs ==
    {<<"Steam", "RPG">>, <<"PlayStation 5", "RPG">>, <<"Atari", "RPG">>,
     <<"Steam", "Puzzle">>, <<"", "RPG">>}

CachePages ==
    {ApiPage(1, n, FALSE) : n \in {0, 1, 10, 20}}
        \cup {ApiPage(10, n, FALSE) : n \in {10, 20}}
        \cup {ApiPage(1, 10, TRUE)}

CacheNets == NetFailures \cup {NetOk(page) : page \in CachePages}

InitCache ==
    /\ NoUsers
    /\ resp = BlankResp

NextCache ==
    \E c \in {"c1"} :
        \/ \E pg \in CachePairs, net \in CacheNets : Results(c, pg[1], pg[2], net)
        \/ Logout(c)

SpecCache == InitCache /\ [][NextCache]_vars

(***************************************************************************)
(* Properties.  resp' describes the request a step served; the unprimed    *)
(* tables and sessions are the ones that request found.                    *)
(***************************************************************************)
ServedResults(r) == r.route = "results" /\ r.outcome # "invalid"

RenderedResults(r) == r.route = "results" /\ r.outcome = "ok"

\* The Game rows of a platform and genre, in primary-key order.
RowsOf(tbl, platform, genre) ==
    SelectSeq(tbl, LAMBDA g : g.platform = platform /\ g.genre = genre)

\* How many times the row x occurs in s.
Count(s, x) == Cardinality({i \in DOMAIN s : s[i] = x})

NonIncreasing(s) == \A i \in 1..(Len(s) - 1) : s[i].rating >= s[i + 1].rating

\* C1: the game list handed to the results page holds no two entries with
\* the same external id (rawg_id).
C1_NoDuplicateIds ==
    RenderedResults(resp) =>
        \A i, j \in DOMAIN resp.games :
            i # j => resp.games[i].rawg_id # resp.games[j].rawg_id

\* C2: when a /results request in which the external API returned rows
\* completes, every fetched row that had no cache row with the same external
\* id + platform + genre beforehand is in the Game table.
C2_FetchedRowsPersisted ==
    [][RenderedResults(resp') /\ resp'.api_games # <<>> =>
          \A i \in DOMAIN resp'.api_games :
              ~GameExists(games, resp'.api_games[i])
                  => GameExists(games', resp'.api_games[i])]_vars

\* C3 as stated: the external API is called exactly when the cache lookup for
\* the requested platform and genre returns fewer than 10 rows; with 10 or
\* more the page shows exactly the cached rows.
C3_CalledIffCacheThin ==
    [][ServedResults(resp') =>
          LET n == Len(RowsOf(games, resp'.platform, resp'.genre)) IN
          /\ resp'.api_called <=> n < CacheThreshold
          /\ n >= CacheThreshold =>
                RenderedResults(resp') /\ resp'.games = resp'.cached
          /\ resp'.api_called => resp'.api_page_size = PageSize]_vars

\* C3 amended: the external API is called exactly when the cache lookup
\* returns fewer than 10 rows and the requested platform and genre are both
\* keys of the lookup tables; with 10 or more cached rows no call is made and
\* the page shows exactly the rows of the lookup (the 20 highest rated); a
\* call asks for up to 20 results.
C3_CalledIffCacheThinAndMapped ==
    [][ServedResults(resp') =>
          LET rows == RowsOf(games, resp'.platform, resp'.genre)
              n == Len(rows)
          IN  /\ resp'.api_called <=>
                    /\ n < CacheThreshold
                    /\ PLATFORM_MAP(resp'.platform) # 0
                    /\ GENRE_MAP(resp'.genre) # ""
              /\ n >= CacheThreshold =>
                    /\ RenderedResults(resp')
                    /\ resp'.games = resp'.cached
                    /\ Len(resp'.games) = IF n < ResultLimit THEN n ELSE ResultLimit
                    /\ Range(resp'.games) \subseteq Range(rows)
                    /\ NonIncreasing(resp'.games)
              /\ resp'.api_called => resp'.api_page_size = PageSize]_vars

C3_Witness ==
    /\ RenderedResults(resp)
    /\ Len(resp.cached) = CacheThreshold
    /\ ~resp.api_called
    /\ resp.games = resp.cached

\* C4: when the external API call fails (exception, HTTP error status, no
\* results field) the request still completes, renders exactly the rows of
\* the cache lookup, and leaves the Game table unchanged.
C4_FailedCallIsNoResults ==
    [][ServedResults(resp') /\ resp'.api_failed =>
          /\ RenderedResults(resp')
          /\ resp'.view = "results.html"
          /\ resp'.games =
                Take(SortDesc(RowsOf(games, resp'.platform, resp'.genre)), ResultLimit)
          /\ games' = games]_vars

C4_Witness ==
    /\ RenderedResults(resp)
    /\ resp.api_failed
    /\ resp.games # <<>>

\* shown is the ResultLimit highest-rated rows of union (all if fewer): rows
\* of union, highest first, none left out that is rated above a shown one.
TopRated(shown, union) ==
    /\ Len(shown) <= ResultLimit
    /\ Len(shown) = IF Len(union) < ResultLimit THEN Len(union) ELSE ResultLimit
    /\ NonIncreasing(shown)
    /\ \A x \in Range(shown) : Count(shown, x) <= Count(union, x)
    /\ \A u \in Range(union) :
          Count(shown, u) < Count(union, u)
              => \A g \in Range(shown) : u.rating <= g.rating

\* The fetched rows whose external id none of rows has.
NotAmong(rows, api_games) ==
    LET ids == {rows[i].rawg_id : i \in DOMAIN rows}
    IN  SelectSeq(api_games, LAMBDA g : g.rawg_id \notin ids)

\* C8: whenever the external API returns at least one row, the list shown is
\* the 20 highest-rated rows (all if fewer) of the cached rows together with
\* the fetched rows whose id is not cached: at most 20 entries, ratings
\* non-increasing, no omitted row rated strictly higher than a shown one.
C8_TopRatedOfUnion ==
    [][RenderedResults(resp') /\ resp'.api_games # <<>> =>
          TopRated(resp'.games,
                   RowsOf(games, resp'.platform, resp'.genre)
                       \o NotAmong(RowsOf(games, resp'.platform, resp'.genre),
                                   resp'.api_games))]_vars

C8_Witness ==
    /\ RenderedResults(resp)
    /\ resp.cached # <<>>
    /\ resp.api_games # <<>>
    /\ Len(resp.cached) + Len(resp.api_games) > ResultLimit
    /\ Len(resp.games) = ResultLimit
    /\ \E i, j \in DOMAIN resp.games : resp.games[i].rating > resp.games[j].rating

\* C10: once a /results request for a platform+genre has fetched at least 10
\* rows (here: rows of 10 different ids) from the external API, every later
\* /results request for that platform+genre finds at least 10 cached rows and
\* makes no external API call.
C10_CacheConverges ==
    [][ServedResults(resp') /\ <<resp'.platform, resp'.genre>> \in fetched10 =>
          /\ Len(resp'.cached) >= CacheThreshold
          /\ ~resp'.api_called]_vars

UniqueUsernames(tbl) ==
    \A i, j \in DOMAIN tbl : tbl[i].username = tbl[j].username => i = j

RejectedSignup(r) ==
    /\ r.route = "signup"
    /\ r.outcome \in {"missing", "mismatch", "exists", "commit_error"}

\* C5: after any interleaving of signup requests, two that both passed the
\* existence check for the same username included, no two User rows have the
\* same username; a signup for an existing username, with a missing field or
\* with a mismatched confirmation leaves the User table unchanged.
C5_UniqueUsernames ==
    [][/\ UniqueUsernames(users')
       /\ RejectedSignup(resp') => users' = users]_vars

\* Both browsers passed the existence check for one username; the second
\* commit was refused.
C5_Witness ==
    /\ resp.route = "signup"
    /\ resp.outcome = "commit_error"
    /\ \E i \in DOMAIN users : users[i].username = resp.username

SavedRow(tbl, user_id, platform, genre) ==
    [id |-> Len(tbl) + 1, user_id |-> user_id,
     platform_choice |-> platform, genre_choice |-> genre]

\* C6: every /results request with a non-empty platform and genre made while
\* a user is logged in appends exactly one SavedList row, owned by that user
\* and carrying the platform and genre; a guest request appends none; no
\* request of any route modifies or removes a SavedList row.
C6_AppendOnlyLog ==
    [][/\ ServedResults(resp') /\ session[resp'.client].user_id # 0 =>
             saved_lists' = Append(saved_lists,
                                   SavedRow(saved_lists, session[resp'.client].user_id,
                                            resp'.platform, resp'.genre))
       /\ ServedResults(resp') /\ session[resp'.client].user_id = 0 =>
             saved_lists' = saved_lists
       /\ ~ServedResults(resp') => saved_lists' = saved_lists]_vars

\* The login POST that the response r answers named an existing User row and
\* gave the password of that row's stored hash.
VerifiedLogin(r, c) ==
    /\ r.route = "login" /\ r.method = "POST" /\ r.client = c
    /\ \E i \in DOMAIN users :
          /\ users[i].username = r.username
          /\ users[i].password_hash.digest = Digest(users[i].password_hash.salt, r.password)
          /\ session'[c].user_id = i

FailedLogin(r, c) ==
    /\ r.route = "login" /\ r.method = "POST" /\ r.client = c
    /\ r.outcome \in {"missing", "invalid"}

LoginOnlyByVerifiedPost ==
    \A c \in Clients :
        /\ session'[c].user_id # 0 /\ session'[c].user_id # session[c].user_id
              => VerifiedLogin(resp', c)
        /\ resp'.route = "login" /\ resp'.client = c /\ resp'.method = "POST"
              => FailedLogin(resp', c) \/ VerifiedLogin(resp', c)
        /\ resp'.route = "logout" /\ resp'.client = c => session'[c].user_id = 0

\* C7 as stated: the session becomes logged in only through a /login POST
\* naming an existing User row with a password that verifies against its
\* hash, and is set to that row's id; a login POST with a missing field, an
\* unknown username or a wrong password leaves the session not logged in;
\* /logout returns it to not logged in.
C7_FailedLoginNotLoggedIn ==
    [][/\ LoginOnlyByVerifiedPost
       /\ \A c \in Clients : FailedLogin(resp', c) => session'[c].user_id = 0]_vars

\* C7 amended: as C7, except that a failed login POST leaves the session as
\* it was (not logged in if it was not; still logged in as the same user if
\* it was).
C7_FailedLoginKeepsSession ==
    [][/\ LoginOnlyByVerifiedPost
       /\ \A c \in Clients : FailedLogin(resp', c) => session'[c] = session[c]]_vars

C7_Witness ==
    /\ resp.route = "login"
    /\ resp.outcome = "ok"
    /\ resp.username = "bob"
    /\ session[resp.client].user_id = 2
    /\ users[2].username = "bob"

\* C9: /my-lists in a session that is not logged in returns no SavedList rows
\* and redirects to /login; in a logged-in session it returns exactly the
\* SavedList rows owned by the session's user.
C9_MyListsBehindLogin ==
    resp.route = "my_lists" =>
        LET user_id == session[resp.client].user_id IN
        IF user_id = 0
        THEN resp.view = "->login" /\ resp.saved_shown = <<>>
        ELSE /\ resp.view = "my_lists.html"
             /\ Range(resp.saved_shown) =
                    {saved_lists[i] : i \in {j \in DOMAIN saved_lists :
                                                saved_lists[j].user_id = user_id}}
             /\ Len(resp.saved_shown) = Cardinality(Range(resp.saved_shown))

C9_Witness ==
    /\ resp.route = "my_lists"
    /\ resp.saved_shown # <<>>
    /\ \E i \in DOMAIN saved_lists :
          saved_lists[i].user_id # session[resp.client].user_id

====
